---- MODULE Spec2Model ----
(***************************************************************************)
(* A model of TRestAxionField (src/src/TRestAxionField.cxx): the closed-   *)
(* form conversion and absorption probabilities, and the field-map engine  *)
(* built on the GSL quadrature routines.                                   *)
(*                                                                         *)
(* Numbers.  The code computes in double precision.  The model computes    *)
(* the same expressions exactly, on a lattice of inputs on which every     *)
(* quantity of the code is an exact number:                                *)
(*   - fBmag in T, masses in eV, energies in keV are small naturals;       *)
(*   - a length n stands for n*L0, where L0 is the length for which        *)
(*     l/(2*Ea) is (pi/3)/EaLCM per eV^2 at Ea = 1 keV, so phi = q*l is    *)
(*     an integer multiple k of pi/3 and 2*cos(phi) is an integer;         *)
(*   - an attenuation G stands for G*G0, where G0*L0 (in the units of      *)
(*     GammaL) is 2*ln 2, so exp(-GammaL) = 4^(-g), exp(-GammaL/2) =       *)
(*     2^(-g) with g = G*n;                                                *)
(*   - probabilities are in units of U = BLHalfSquared(1 T, L0).           *)
(* The denominator phi^2 + GammaL^2/4 is then a*(pi^2/9) + b*(ln 2)^2 with *)
(* naturals a = k^2, b = g^2; it is zero only when a = b = 0.              *)
(***************************************************************************)
EXTENDS Integers, Sequences, FiniteSets, TLC

VARIABLES fBmag, fLcoh, fEa, fBufferGas, fMagneticField, call, out, lastFull, live,
          fFluxDataFile, fFluxTable, fFluxTableIntegrals

vars == <<fBmag, fLcoh, fEa, fBufferGas, fMagneticField, call, out, lastFull, live,
          fFluxDataFile, fFluxTable, fFluxTableIntegrals>>

\* the members of the TRestAxionSolarFlux instance
SolarFlux == <<fFluxDataFile, fFluxTable, fFluxTableIntegrals>>

\* no TRestAxionSolarFlux instance is configured
NoSolarFlux ==
    /\ fFluxDataFile = [extension |-> ""]
    /\ fFluxTable = << >>
    /\ fFluxTableIntegrals = << >>

---------------------------------------------------------------------------
(* Bounds of the input lattice *)

MaxB == 2
MaxL == 2
MaxEa == 2
MaxMass == 2
MaxGamma == 1

Fields == 1..MaxB
Lengths == 0..MaxL
Energies == 0..MaxEa
Masses == 0..MaxMass
Gammas == 0..MaxGamma

---------------------------------------------------------------------------
(* Exact arithmetic *)

RECURSIVE GCD(_, _)
GCD(x, y) == IF y = 0 THEN x ELSE GCD(y, x % y)

LCM(x, y) == (x * y) \div GCD(x, y)

RECURSIVE LCMUpTo(_)
LCMUpTo(n) == IF n <= 1 THEN 1 ELSE LCM(n, LCMUpTo(n - 1))

\* every energy of the lattice divides EaLCM, which keeps q*l on the lattice
EaLCM == LCMUpTo(MaxEa)

RECURSIVE Pow(_, _)
Pow(x, e) == IF e = 0 THEN 1 ELSE x * Pow(x, e - 1)

\* the largest power of two dividing x (x > 0)
RECURSIVE TwoPart(_)
TwoPart(x) == IF x % 2 = 0 THEN 2 * TwoPart(x \div 2) ELSE 1

\* IEEE special values of a double
NaN == [kind |-> "nan"]
Inf == [kind |-> "inf"]
Unset == [kind |-> "unset"]

\* a double holding the integer (or the pair) v
Fin(v) == [kind |-> "fin", v |-> v]

Zero == Fin(0)

\* The nonzero real number n * (ln 2)^w / (p * (a*pi^2/9 + b*(ln 2)^2 + c)),
\* p a power of two, in the one form that denotes it: two results are the
\* same number exactly when their forms are equal.

Canon(n, w, p, a, b, c) ==
    IF n = 0 THEN Zero
    ELSE LET g1 == GCD(n, GCD(a, GCD(b, c)))
             n1 == n \div g1
             a1 == a \div g1
             b1 == b \div g1
             c1 == c \div g1
             t  == TwoPart(GCD(a1, GCD(b1, c1)))
             p1 == p * t
             g2 == GCD(n1, p1)
         IN [kind |-> "real", n |-> n1 \div g2, w |-> w, p |-> p1 \div g2,
             a |-> a1 \div t, b |-> b1 \div t, c |-> c1 \div t]

\* the real number x, x a natural
Exact(x) == Canon(x, 0, 1, 0, 0, 1)

IsFinite(x) == x.kind \in {"fin", "real"}

---------------------------------------------------------------------------
(* The buffer gas collaborator (TRestAxionBufferGas): photon mass and      *)
(* absorption as functions of the photon energy.                           *)

NULL == [gas |-> "nullptr"]

GasNames == {"He", "Ne"}

\* a gas object: what it is made of, its density, and whether it is a local
\* of GetMassDensityScanning or an object of the caller
Gas(gasName, density, local) ==
    [gasName |-> gasName, density |-> density, local |-> local]

\* a gas of zero density
Empty == Gas("He", 0, FALSE)

\* a gas whose properties change with the energy
He == Gas("He", 2, FALSE)

Gases == {Empty, He}

\* a gas so dense that its photon mass is beyond the ceiling of the width
\* walk
Dense == Gas("He", 6, FALSE)

\* the photon mass grows with the density and, here, with the energy class
EnergyClass(en) == IF en <= 1 THEN 1 ELSE 2

GetPhotonMass(gas, en) == (gas.density * EnergyClass(en)) \div 2

GetPhotonAbsorptionLength(gas, en) ==
    IF gas.density = 0 THEN 0
    ELSE IF gas.gasName = "He" THEN 3 - EnergyClass(en)
    ELSE 1

---------------------------------------------------------------------------
(* Closed-form engine *)

FieldState == [fBmag |-> fBmag, fLcoh |-> fLcoh, fEa |-> fEa]

FieldStates == [fBmag : Fields, fLcoh : Lengths, fEa : Energies]

\* (BL/2)^2 in units of U
BLHalfSquared(Bmag, Lcoh) ==
    LET sol == Lcoh * Bmag
    IN sol * sol

\* 2*cos(k*pi/3)
Cos2(k) == <<2, 1, -1, -2, -1, 1>>[(k % 6) + 1]

\* the gas is asked whenever one is bound, whatever mg is
PhotonMassAskedAlways(gas, mg) == gas # NULL

\* photonMass = mg; if (mg == 0 && fBufferGas) photonMass = gas photon mass
PhotonMassAsked(gas, mg) == mg = 0 /\ gas # NULL

ResolvePhotonMass(gas, en, mg) ==
    IF PhotonMassAsked(gas, mg) THEN GetPhotonMass(gas, en) ELSE mg

\* Gamma = absLength; if (absLength == 0 && fBufferGas) Gamma = gas absorption
GammaAsked(gas, absLength) == absLength = 0 /\ gas # NULL

ResolveGamma(gas, en, absLength) ==
    IF GammaAsked(gas, absLength) THEN GetPhotonAbsorptionLength(gas, en) ELSE absLength

\* the test on ma inverted
IsDegenerateInverted(ma, photonMass) == ma # 0 /\ photonMass = 0

\* if (ma == 0.0 && photonMass == 0.0)
IsDegenerate(ma, photonMass) == ma = 0 /\ photonMass = 0

\* the photon mass not squared
MassDifferenceUnsquared(ma, photonMass) == ma * ma - photonMass

\* ma * ma - photonMass * photonMass
MassDifference(ma, photonMass) == ma * ma - photonMass * photonMass

\* q = (ma^2 - photonMass^2) / 2. / (Ea * units("eV")): a division by zero
\* when Ea is 0
ReducedMomentum(ma, photonMass, Ea) ==
    LET num == MassDifference(ma, photonMass)
    IN IF Ea = 0 THEN (IF num = 0 THEN NaN ELSE Inf)
       ELSE Fin(<<num, Ea>>)

\* phi = q * l, in units of pi/3
Phase(q, Lcoh) ==
    IF q.kind = "fin" THEN Fin((q.v[1] * Lcoh * EaLCM) \div q.v[2])
    ELSE IF q.kind = "inf" /\ Lcoh # 0 THEN Inf
    ELSE NaN

\* MFactor = 1.0 / (phi * phi + GammaL * GammaL / 4.0); a finite nonzero
\* MFactor is carried by the two coefficients of its denominator, 1.0 / 0 is
\* Inf and 1.0 / Inf is 0
MFactorOf(phi, GammaL) ==
    IF phi.kind = "fin"
    THEN IF phi.v = 0 /\ GammaL = 0 THEN Inf
         ELSE Fin(<<phi.v * phi.v, GammaL * GammaL>>)
    ELSE IF phi.kind = "inf" THEN Zero
    ELSE NaN

\* MFactor * BLHalfSquared * (1 + exp(-GammaL) - 2 * exp(-GammaL / 2) * cos(phi))
TransmissionValue(MFactor, phi, GammaL, bl) ==
    IF phi.kind = "fin" /\ MFactor.kind = "fin"
    THEN Canon(bl * (Pow(4, GammaL) + 1 - Pow(2, GammaL) * Cos2(phi.v)),
               0, Pow(4, GammaL), MFactor.v[1], MFactor.v[2], 0)
    ELSE NaN

GammaTransmissionProbability(self, gas, ma, mg, absLength) ==
    LET photonMass == ResolvePhotonMass(gas, self.fEa, mg)
    IN IF IsDegenerate(ma, photonMass)
       THEN [photonMass |-> photonMass, askedMass |-> PhotonMassAsked(gas, mg),
             degenerate |-> TRUE, q |-> Unset, phi |-> Unset,
             Gamma |-> Unset, askedGamma |-> FALSE, GammaL |-> Unset,
             MFactor |-> Unset,
             sol |-> Exact(BLHalfSquared(self.fBmag, self.fLcoh))]
       ELSE LET q == ReducedMomentum(ma, photonMass, self.fEa)
                phi == Phase(q, self.fLcoh)
                Gamma == ResolveGamma(gas, self.fEa, absLength)
                GammaL == Gamma * self.fLcoh
                MFactor == MFactorOf(phi, GammaL)
            IN [photonMass |-> photonMass, askedMass |-> PhotonMassAsked(gas, mg),
                degenerate |-> FALSE, q |-> q, phi |-> phi,
                Gamma |-> Fin(Gamma), askedGamma |-> GammaAsked(gas, absLength),
                GammaL |-> Fin(GammaL), MFactor |-> MFactor,
                sol |-> TransmissionValue(MFactor, phi, GammaL,
                                          BLHalfSquared(self.fBmag, self.fLcoh))]

\* MFactor * BLHalfSquared * GammaL, with GammaL = 2 * g * ln 2
AbsorptionValue(MFactor, phi, GammaL, bl) ==
    IF phi.kind = "fin" /\ MFactor.kind = "fin"
    THEN Canon(bl * 2 * GammaL, 1, 1, MFactor.v[1], MFactor.v[2], 0)
    ELSE IF MFactor = Zero THEN Zero
    ELSE NaN

AxionAbsorptionProbability(self, gas, ma, mg, absLength) ==
    LET photonMass == ResolvePhotonMass(gas, self.fEa, mg)
    IN IF IsDegenerate(ma, photonMass)
       THEN [photonMass |-> photonMass, askedMass |-> PhotonMassAsked(gas, mg),
             degenerate |-> TRUE, q |-> Unset, phi |-> Unset,
             Gamma |-> Unset, askedGamma |-> FALSE, GammaL |-> Unset,
             MFactor |-> Unset,
             sol |-> Exact(BLHalfSquared(self.fBmag, self.fLcoh))]
       ELSE LET q == ReducedMomentum(ma, photonMass, self.fEa)
                phi == Phase(q, self.fLcoh)
                Gamma == ResolveGamma(gas, self.fEa, absLength)
                GammaL == Gamma * self.fLcoh
                MFactor == MFactorOf(phi, GammaL)
            IN [photonMass |-> photonMass, askedMass |-> PhotonMassAsked(gas, mg),
                degenerate |-> FALSE, q |-> q, phi |-> phi,
                Gamma |-> Fin(Gamma), askedGamma |-> GammaAsked(gas, absLength),
                GammaL |-> Fin(GammaL), MFactor |-> MFactor,
                sol |-> AbsorptionValue(MFactor, phi, GammaL,
                                        BLHalfSquared(self.fBmag, self.fLcoh))]

\* the assignment of fEa left out
SetFieldStateKeepEa(self, Bmag, Lcoh, Ea) ==
    [self EXCEPT !.fBmag = Bmag, !.fLcoh = Lcoh]

\* the assignment of fLcoh left out
SetFieldStateKeepLcoh(self, Bmag, Lcoh, Ea) ==
    [self EXCEPT !.fBmag = Bmag, !.fEa = Ea]

\* fBmag = Bmag; fLcoh = Lcoh; fEa = Ea;
SetFieldState(self, Bmag, Lcoh, Ea) ==
    [self EXCEPT !.fBmag = Bmag, !.fLcoh = Lcoh, !.fEa = Ea]

---------------------------------------------------------------------------
(* Field-map engine.  The field map (TRestAxionMagneticField) gives a      *)
(* track length; the GSL routines give a status, a result and an error     *)
(* estimate per call.                                                      *)

MaxTrack == 1
MaxSetting == 1
MaxIntegral == 1
MaxLive == 3

nullptr == [null |-> TRUE]

FieldMaps == {[trackLength |-> t] : t \in 0..MaxTrack}

\* accuracy, num_intervals and qawo_levels are handed to GSL and read nowhere
\* else
Settings == 1..MaxSetting

\* What gsl_integration_qag and gsl_integration_qawo return: GSL_SUCCESS (0)
\* with a result and an error estimate, or one of their error codes
\* (GSL_EMAXITER = 11, GSL_EROUND = 18; every code they return is positive).
QuadErrors == {11, 18}

QuadOutcomes ==
    {[status |-> s, result |-> 0, abserr |-> 0] : s \in QuadErrors}
    \cup {[status |-> 0, result |-> r, abserr |-> e] :
             r \in 0..MaxIntegral, e \in {0, 1}}

\* a failure taken to be a negative status
QuadFailedNegative(status) == status < 0

\* if (status > 0)
QuadFailed(status) == status > 0

\* the integer square root of x when x is a perfect square, -1 otherwise
ISqrt(x) ==
    IF \E s \in 0..x : s * s = x THEN CHOOSE s \in 0..x : s * s = x ELSE -1

\* 2 * C * sqrt(x) with C = exp(-GammaL) * BLHalfSquared(1, 1)
TwoCSqrt(GammaL, x) ==
    IF ISqrt(x) >= 0 THEN Canon(2 * ISqrt(x), 0, Pow(4, GammaL), 0, 0, 1)
    ELSE [kind |-> "sqrt", n |-> 4 * x, p |-> Pow(16, GammaL)]

\* the early return without the RESTError lines
NoFieldMapResultSilent ==
    [ret |-> <<Zero, Zero>>, reported |-> FALSE, quad |-> << >>,
     allocated |-> 0, released |-> 0, computed |-> FALSE]

\* return {0.0, 0.0} after the two RESTError lines
NoFieldMapResult ==
    [ret |-> <<Zero, Zero>>, reported |-> TRUE, quad |-> << >>,
     allocated |-> 0, released |-> 0, computed |-> FALSE]

\* if (fMagneticField->GetTrackLength() <= 0) return {0.0, 0.0};
NoTrackResult ==
    [ret |-> <<Zero, Zero>>, reported |-> FALSE, quad |-> << >>,
     allocated |-> 0, released |-> 0, computed |-> FALSE]

\* the error estimate taken to be 2 * C * rerr, without the factor reprob
ComputeResonanceIntegralBareError(fm, Gamma, accuracy, num_intervals, o) ==
    LET status == o.status
        reprob == o.result
        rerr == o.abserr
        GammaL == Gamma * fm.trackLength
    IN IF QuadFailed(status)
       THEN [ret |-> <<Zero, Fin(status)>>, reported |-> FALSE, quad |-> <<status>>,
             allocated |-> 1, released |-> 0, computed |-> FALSE]
       ELSE [ret |-> <<Canon(reprob * reprob, 0, Pow(4, GammaL), 0, 0, 1),
                       Canon(2 * rerr, 0, Pow(4, GammaL), 0, 0, 1)>>,
             reported |-> FALSE, quad |-> <<status>>,
             allocated |-> 1, released |-> 0, computed |-> TRUE]

\* One workspace is allocated and never freed.
ComputeResonanceIntegral(fm, Gamma, accuracy, num_intervals, o) ==
    LET status == o.status
        reprob == o.result
        rerr == o.abserr
        GammaL == Gamma * fm.trackLength
    IN IF QuadFailed(status)
       THEN [ret |-> <<Zero, Fin(status)>>, reported |-> FALSE, quad |-> <<status>>,
             allocated |-> 1, released |-> 0, computed |-> FALSE]
       ELSE [ret |-> <<Canon(reprob * reprob, 0, Pow(4, GammaL), 0, 0, 1),
                       Canon(2 * reprob * rerr, 0, Pow(4, GammaL), 0, 0, 1)>>,
             reported |-> FALSE, quad |-> <<status>>,
             allocated |-> 1, released |-> 0, computed |-> TRUE]

\* One workspace and one table are allocated; the table is freed on the two
\* failure returns only, the workspace never.
ComputeOffResonanceIntegral(fm, q, Gamma, accuracy, num_intervals, qawo_levels, oc, os) ==
    LET GammaL == Gamma * fm.trackLength
    IN IF QuadFailed(oc.status)
       THEN [ret |-> <<Zero, Fin(oc.status)>>, reported |-> FALSE,
             quad |-> <<oc.status>>,
             allocated |-> 2, released |-> 1, computed |-> FALSE]
       ELSE IF QuadFailed(os.status)
       THEN [ret |-> <<Zero, Fin(os.status)>>, reported |-> FALSE,
             quad |-> <<oc.status, os.status>>,
             allocated |-> 2, released |-> 1, computed |-> FALSE]
       ELSE LET reprob == oc.result
                rerr == oc.abserr
                improb == os.result
                imerr == os.abserr
            IN [ret |-> <<Canon(reprob * reprob + improb * improb, 0,
                                Pow(4, GammaL), 0, 0, 1),
                          TwoCSqrt(GammaL, reprob * reprob * rerr * rerr
                                           + improb * improb * imerr * imerr)>>,
                reported |-> FALSE, quad |-> <<oc.status, os.status>>,
                allocated |-> 2, released |-> 0, computed |-> TRUE]

\* q == 0
IsResonance(q) == q.kind = "fin" /\ q.v[1] = 0

GammaTransmissionFieldMapProbability(fm, gas, Ea, ma, accuracy, num_intervals, qawo_levels, o1, o2) ==
    IF fm = nullptr THEN NoFieldMapResult
    ELSE IF fm.trackLength <= 0 THEN NoTrackResult
    ELSE LET photonMass == IF gas # NULL THEN GetPhotonMass(gas, Ea) ELSE 0
             q == ReducedMomentum(ma, photonMass, Ea)
             Gamma == IF gas # NULL THEN GetPhotonAbsorptionLength(gas, Ea) ELSE 0
         IN IF IsResonance(q)
            THEN ComputeResonanceIntegral(fm, Gamma, accuracy, num_intervals, o1)
            ELSE ComputeOffResonanceIntegral(fm, q, Gamma, accuracy, num_intervals,
                                             qawo_levels, o1, o2)

---------------------------------------------------------------------------
(* State: the data members of one TRestAxionField, the arguments the       *)
(* caller passes (call), what the last call computed and returned (out),   *)
(* the B, L, Ea of the last full-argument call (lastFull) and the number   *)
(* of GSL workspaces and tables allocated and not freed (live).            *)

NoCall == [op |-> "none", ma |-> 0, mg |-> 0, absLength |-> 0]

NoOut == [sol |-> Unset]

None == << >>

\* Initialize() sets fBufferGas = NULL; fBmag, fLcoh, fEa are whatever the
\* instance was configured with.
Init ==
    /\ fBmag \in Fields
    /\ fLcoh \in Lengths
    /\ fEa \in Energies
    /\ fBufferGas = NULL
    /\ fMagneticField = nullptr
    /\ call = NoCall
    /\ out = NoOut
    /\ lastFull = None
    /\ live = 0
    /\ NoSolarFlux

AssignBufferGas(gas) ==
    /\ fBufferGas' = gas
    /\ call' = [call EXCEPT !.op = "AssignBufferGas"]
    /\ out' = NoOut
    /\ UNCHANGED <<fBmag, fLcoh, fEa, fMagneticField, lastFull, live, SolarFlux>>

\* the caller chooses the ma, mg, absLength of its next calls
ChooseArguments(ma, mg, absLength) ==
    /\ call' = [op |-> "none", ma |-> ma, mg |-> mg, absLength |-> absLength]
    /\ out' = NoOut
    /\ UNCHANGED <<fBmag, fLcoh, fEa, fBufferGas, fMagneticField, lastFull, live, SolarFlux>>

\* the reduced overload taken to store the length and the energy it used as
\* natural units would: the members cleared behind the call
GammaTransmissionProbabilityReducedClearing ==
    /\ call' = [call EXCEPT !.op = "GammaTransmissionProbability"]
    /\ out' = GammaTransmissionProbability(FieldState, fBufferGas,
                                           call.ma, call.mg, call.absLength)
    /\ fBmag' = 0
    /\ fLcoh' = 0
    /\ fEa' = 0
    /\ UNCHANGED <<fBufferGas, fMagneticField, lastFull, live, SolarFlux>>

GammaTransmissionProbabilityReduced ==
    /\ call' = [call EXCEPT !.op = "GammaTransmissionProbability"]
    /\ out' = GammaTransmissionProbability(FieldState, fBufferGas,
                                           call.ma, call.mg, call.absLength)
    /\ UNCHANGED <<fBmag, fLcoh, fEa, fBufferGas, fMagneticField, lastFull, live, SolarFlux>>

GammaTransmissionProbabilityFull(Bmag, Lcoh, Ea) ==
    LET self == SetFieldState(FieldState, Bmag, Lcoh, Ea)
    IN /\ fBmag' = self.fBmag
       /\ fLcoh' = self.fLcoh
       /\ fEa' = self.fEa
       /\ call' = [call EXCEPT !.op = "GammaTransmissionProbabilityFull"]
       /\ out' = GammaTransmissionProbability(self, fBufferGas,
                                              call.ma, call.mg, call.absLength)
       /\ lastFull' = <<Bmag, Lcoh, Ea>>
       /\ UNCHANGED <<fBufferGas, fMagneticField, live, SolarFlux>>

AxionAbsorptionProbabilityReduced ==
    /\ call' = [call EXCEPT !.op = "AxionAbsorptionProbability"]
    /\ out' = AxionAbsorptionProbability(FieldState, fBufferGas,
                                         call.ma, call.mg, call.absLength)
    /\ UNCHANGED <<fBmag, fLcoh, fEa, fBufferGas, fMagneticField, lastFull, live, SolarFlux>>

AxionAbsorptionProbabilityFull(Bmag, Lcoh, Ea) ==
    LET self == SetFieldState(FieldState, Bmag, Lcoh, Ea)
    IN /\ fBmag' = self.fBmag
       /\ fLcoh' = self.fLcoh
       /\ fEa' = self.fEa
       /\ call' = [call EXCEPT !.op = "AxionAbsorptionProbabilityFull"]
       /\ out' = AxionAbsorptionProbability(self, fBufferGas,
                                            call.ma, call.mg, call.absLength)
       /\ lastFull' = <<Bmag, Lcoh, Ea>>
       /\ UNCHANGED <<fBufferGas, fMagneticField, live, SolarFlux>>

Next ==
    \/ \E gas \in Gases \cup {NULL} : AssignBufferGas(gas)
    \/ \E ma \in Masses, mg \in Masses, absLength \in Gammas :
          ChooseArguments(ma, mg, absLength)
    \/ GammaTransmissionProbabilityReduced
    \/ \E Bmag \in Fields, Lcoh \in Lengths, Ea \in Energies :
          GammaTransmissionProbabilityFull(Bmag, Lcoh, Ea)
    \/ AxionAbsorptionProbabilityReduced
    \/ \E Bmag \in Fields, Lcoh \in Lengths, Ea \in Energies :
          AxionAbsorptionProbabilityFull(Bmag, Lcoh, Ea)

Spec == Init /\ [][Next]_vars

---------------------------------------------------------------------------
(* The field-map engine on its own: it reads the two bindings and none of  *)
(* fBmag, fLcoh, fEa.                                                      *)

AssignMagneticField(fm) ==
    /\ fMagneticField' = fm
    /\ call' = [call EXCEPT !.op = "AssignMagneticField"]
    /\ out' = NoOut
    /\ UNCHANGED <<fBmag, fLcoh, fEa, fBufferGas, lastFull, live, SolarFlux>>

\* o1 and o2 are what the first and the second quadrature call give, if made
FieldMapProbability(Ea, ma, accuracy, num_intervals, qawo_levels, o1, o2) ==
    /\ live + 2 <= MaxLive
    /\ LET r == GammaTransmissionFieldMapProbability(fMagneticField, fBufferGas, Ea, ma,
                     accuracy, num_intervals, qawo_levels, o1, o2)
       IN /\ out' = r
          /\ live' = live + r.allocated - r.released
    /\ call' = [call EXCEPT !.op = "GammaTransmissionFieldMapProbability"]
    /\ UNCHANGED <<fBmag, fLcoh, fEa, fBufferGas, fMagneticField, lastFull, SolarFlux>>

InitFieldMap ==
    /\ fBmag = MaxB
    /\ fLcoh = MaxL
    /\ fEa = MaxEa
    /\ fBufferGas = NULL
    /\ fMagneticField = nullptr
    /\ call = NoCall
    /\ out = NoOut
    /\ lastFull = None
    /\ live = 0
    /\ NoSolarFlux

NextFieldMap ==
    \/ \E gas \in Gases \cup {NULL} : AssignBufferGas(gas)
    \/ \E fm \in FieldMaps \cup {nullptr} : AssignMagneticField(fm)
    \/ \E Ea \in Energies, ma \in Masses, accuracy \in Settings,
          num_intervals \in Settings, qawo_levels \in Settings,
          o1 \in QuadOutcomes, o2 \in QuadOutcomes :
          FieldMapProbability(Ea, ma, accuracy, num_intervals, qawo_levels, o1, o2)

SpecFieldMap == InitFieldMap /\ [][NextFieldMap]_vars

---------------------------------------------------------------------------
(* The order of the doubles the closed-form engine returns.  pi^2/9 and    *)
(* (ln 2)^2 are known between two rationals of denominator Scale, which    *)
(* decides every comparison of the lattice.                                *)

Scale == 10000

\* 1.0966 < pi^2/9 < 1.0967 and 0.4804 < (ln 2)^2 < 0.4805
DenLo(x) == x.a * 10966 + x.b * 4804 + x.c * Scale

DenHi(x) == x.a * 10967 + x.b * 4805 + x.c * Scale

\* a/b < c/d for naturals a, c and positive b, d, by continued fractions
RECURSIVE FracLess(_, _, _, _)
FracLess(a, b, c, d) ==
    LET q1 == a \div b
        q2 == c \div d
        r1 == a % b
        r2 == c % d
    IN IF q1 # q2 THEN q1 < q2
       ELSE IF r2 = 0 THEN FALSE
       ELSE IF r1 = 0 THEN TRUE
       ELSE FracLess(d, r2, b, r1)

FracLeq(a, b, c, d) == ~FracLess(c, d, a, b)

\* the denominators of x and y are rational multiples of each other
Proportional(x, y) ==
    /\ x.a * y.b = y.a * x.b
    /\ x.a * y.c = y.a * x.c
    /\ x.b * y.c = y.b * x.c

\* x < y for two positive reals of the same power of ln 2:
\* x.n/(x.p*Dx) < y.n/(y.p*Dy) is A/B < Dx/Dy
RealOrder(x, y) ==
    LET gn == GCD(x.n, y.n)
        gp == GCD(x.p, y.p)
        A == (x.n \div gn) * (y.p \div gp)
        B == (y.n \div gn) * (x.p \div gp)
    IN IF Proportional(x, y)
       THEN LET r == IF y.a # 0 THEN <<x.a, y.a>>
                     ELSE IF y.b # 0 THEN <<x.b, y.b>>
                     ELSE <<x.c, y.c>>
            IN IF FracLess(A, B, r[1], r[2]) THEN "lt" ELSE "ge"
       ELSE IF FracLeq(A, B, DenLo(x), DenHi(y)) THEN "lt"
       ELSE IF FracLeq(DenHi(x), DenLo(y), A, B) THEN "ge"
       ELSE "undecided"

\* x < y on doubles: false when either is NaN
Less(x, y) ==
    IF x.kind = "nan" \/ y.kind = "nan" THEN FALSE
    ELSE IF x.kind = "inf" THEN FALSE
    ELSE IF y.kind = "inf" THEN TRUE
    ELSE IF y = Zero THEN FALSE
    ELSE IF x = Zero THEN TRUE
    ELSE RealOrder(x, y) = "lt"

\* x / 2
Half(x) ==
    IF x.kind = "real" THEN Canon(x.n, x.w, 2 * x.p, x.a, x.b, x.c) ELSE x

---------------------------------------------------------------------------
(* GammaTransmissionFWHM: the walk from the resonance towards larger axion *)
(* masses.  Masses are naturals; the 10 eV of the code are CeilingMass.    *)

\* maxMass = 10, in the unit of the mass lattice
CeilingMass == 2

MaxStep == 3

Steps == 0..MaxStep

\* Pmax not halved
AboveHalfNotHalved(Pmax, P) == Less(Pmax, P)

\* Pmax / 2 < GammaTransmissionProbability(scanMass)
AboveHalf(Pmax, P) == Less(Half(Pmax), P)

\* the ceiling put on the width instead of the scan mass
OverCeilingOfWidth(scanMass) == scanMass > 2 * CeilingMass

\* the walk stopped at the ceiling itself
OverCeilingInclusive(scanMass) == scanMass >= CeilingMass

\* if (scanMass > maxMass)
OverCeiling(scanMass) == scanMass > CeilingMass

\* the sentinel doubled like a width
SentinelDoubled == 2 * CeilingMass

\* return maxMass
Sentinel == CeilingMass

\* The while loop of lines 773-781, from scanMass on after n increments.
\* With step = 0 an iteration changes nothing and the loop never ends.
RECURSIVE Walk(_, _, _, _, _, _)
Walk(self, gas, Pmax, scanMass, step, n) ==
    IF ~AboveHalf(Pmax, GammaTransmissionProbability(self, gas, scanMass, 0, 0).sol)
    THEN [exit |-> "crossed", scanMass |-> scanMass, increments |-> n]
    ELSE IF OverCeiling(scanMass + step)
    THEN [exit |-> "ceiling", scanMass |-> scanMass + step, increments |-> n + 1]
    ELSE IF step = 0
    THEN [exit |-> "never", scanMass |-> scanMass, increments |-> n]
    ELSE Walk(self, gas, Pmax, scanMass + step, step, n + 1)

\* the width left as computed
FallbackWidthKept(fwhm, step) == fwhm

\* if (fwhm <= 0) fwhm = step
FallbackWidth(fwhm, step) == IF fwhm <= 0 THEN step ELSE fwhm

\* the one element of a singleton: a value computed once and used many times
\* is bound as the element of a singleton
The(S) == CHOOSE x \in S : TRUE

GammaTransmissionFWHM(self, gas, step) ==
    LET resonanceMass == IF gas # NULL THEN GetPhotonMass(gas, self.fEa) ELSE 0
        Result(Pmax, w) ==
            LET fwhm == w.scanMass - resonanceMass
            IN [resonanceMass |-> resonanceMass, Pmax |-> Pmax, scanMass |-> w.scanMass,
                increments |-> w.increments, exit |-> w.exit,
                returned |-> w.exit # "never",
                reported |-> w.exit = "ceiling" \/ (w.exit = "crossed" /\ fwhm <= 0),
                ret |-> IF w.exit = "ceiling" THEN Sentinel
                        ELSE IF w.exit = "never" THEN 0
                        ELSE 2 * FallbackWidth(fwhm, step)]
    IN The({Result(Pmax, w) :
              <<Pmax, w>> \in {<<P, Walk(self, gas, P, resonanceMass, step, 0)>> :
                                 P \in {GammaTransmissionProbability(
                                            self, gas, resonanceMass, 0, 0).sol}}})

---------------------------------------------------------------------------
(* GetMassDensityScanning.  rampDown is a multiple of a unit so large that *)
(* exp(-ma * rampDown) is exactly 1, 0 or Inf in double precision: the     *)
(* factor is 2 for rampDown = 0, 1 for rampDown > 0 and Inf for            *)
(* rampDown < 0, whatever the positive mass.                               *)

MaxMaMax == 3

MaxRamp == 1

MaMaxes == 0..MaxMaMax

RampDowns == (0 - MaxRamp)..MaxRamp

\* the step GammaTransmissionFWHM() walks with when called without argument
DefaultStep == 1

\* the energy GetDensityForMass(ma) takes when called without energy
DefaultEnergy == 1

\* the density at which the photon mass is mass_eV at the energy en
GetDensityForMass(mass_eV, en) == (2 * mass_eV) \div EnergyClass(en)

\* the factor without its ramp
FactorNoRamp(ma, rampDown) == Fin(2)

\* TMath::Exp(-ma * rampDown) + 1
Factor(ma, rampDown) ==
    IF ma * rampDown = 0 THEN Fin(2)
    ELSE IF ma * rampDown > 0 THEN Fin(1)
    ELSE Inf

\* the mass left where it is
AdvanceNothing(width, factor) == 0

\* GammaTransmissionFWHM() / factor
Advance(width, factor) ==
    IF factor.kind = "inf" THEN 0 ELSE width \div factor.v

\* the loop goes on at ma = maMax
LoopRunsInclusive(ma, maMax) == ma <= maMax

\* while (ma < maMax)
LoopRuns(ma, maMax) == ma < maMax

\* the pair is made before the mass advances
EmittedMassBefore(ma, next) == ma

\* massDensityPairs.push_back(std::make_pair(ma, density)), after ma += ...
EmittedMass(ma, next) == next

\* The loop of lines 839-847 from the point (ma, density) on; an iteration
\* that leaves ma where it was is repeated for ever.
RECURSIVE ScanLoop(_, _, _, _, _, _, _)
ScanLoop(self, gasName, maMax, rampDown, ma, density, massDensityPairs) ==
    IF ~LoopRuns(ma, maMax)
    THEN [returned |-> TRUE, massDensityPairs |-> massDensityPairs, density |-> density]
    ELSE LET factor == Factor(ma, rampDown)
             gas == Gas(gasName, density, TRUE)
             Iteration(width) ==
                 LET next == ma + Advance(width, factor)
                     nextDensity == GetDensityForMass(next, DefaultEnergy)
                     pairs == Append(massDensityPairs,
                                     <<EmittedMass(ma, next), nextDensity>>)
                 IN IF next = ma /\ nextDensity = density
                    THEN [returned |-> FALSE, massDensityPairs |-> pairs,
                          density |-> density]
                    ELSE The({ScanLoop(self, gasName, maMax, rampDown, m, d, q) :
                                <<m, d, q>> \in {<<next, nextDensity, pairs>>}})
         IN The({Iteration(width) :
                   width \in {GammaTransmissionFWHM(self, gas, DefaultStep).ret}})

\* the gas bound before the call is not put back
RestoreNothing(previousGas, gas) == gas

\* fBufferGas = previousGas
Restore(previousGas, gas) == previousGas

\* the first width taken with the caller's gas still bound
DetachNothing(bound) == bound

\* if (fBufferGas) { previousGas = fBufferGas; fBufferGas = nullptr; }
Detach(bound) == NULL

GetMassDensityScanning(self, bound, gasName, maMax, rampDown) ==
    LET previousGas == bound
        Result(first, loop) ==
            LET gas == Gas(gasName, loop.density, TRUE)
            IN [returned |-> loop.returned,
                massDensityPairs |-> loop.massDensityPairs,
                firstWidth |-> first,
                fBufferGas |-> IF loop.returned THEN Restore(previousGas, gas) ELSE gas]
        Scan(first) ==
            LET firstMass == first.ret \div 2
                density == GetDensityForMass(firstMass, self.fEa)
            IN ScanLoop(self, gasName, maMax, rampDown, firstMass, density,
                        << <<firstMass, density>> >>)
    IN The({Result(first, loop) :
              <<first, loop>> \in {<<f, Scan(f)>> :
                  f \in {GammaTransmissionFWHM(self, Detach(bound), DefaultStep)}}})

---------------------------------------------------------------------------
(* The width and the scan on one instance.  call and out hold the call in  *)
(* progress and what it gives until the caller takes the result; a call    *)
(* that does not return leaves the thread in it: nothing is called after   *)
(* it.                                                                     *)

Idle == out = NoOut

\* the call returns to the caller
TakeResult ==
    /\ out # NoOut
    /\ out.returned
    /\ call' = NoCall
    /\ out' = NoOut
    /\ UNCHANGED <<fBmag, fLcoh, fEa, fBufferGas, fMagneticField, lastFull, live, SolarFlux>>

FWHM(step) ==
    /\ Idle
    /\ call' = [op |-> "GammaTransmissionFWHM", step |-> step]
    /\ out' = GammaTransmissionFWHM(FieldState, fBufferGas, step)
    /\ UNCHANGED <<fBmag, fLcoh, fEa, fBufferGas, fMagneticField, lastFull, live, SolarFlux>>

MassDensityScanning(gasName, maMax, rampDown) ==
    /\ Idle
    /\ LET r == GetMassDensityScanning(FieldState, fBufferGas, gasName, maMax, rampDown)
       IN /\ out' = r
          /\ fBufferGas' = r.fBufferGas
    /\ call' = [op |-> "GetMassDensityScanning", gasName |-> gasName, maMax |-> maMax,
                rampDown |-> rampDown, previousGas |-> fBufferGas]
    /\ UNCHANGED <<fBmag, fLcoh, fEa, fMagneticField, lastFull, live, SolarFlux>>

InitScan == Init

NextScan ==
    \/ \E gas \in Gases \cup {Dense, NULL} : Idle /\ AssignBufferGas(gas)
    \/ \E step \in Steps : FWHM(step)
    \/ \E gasName \in GasNames, maMax \in MaMaxes, rampDown \in RampDowns :
          MassDensityScanning(gasName, maMax, rampDown)
    \/ TakeResult

SpecScan == InitScan /\ [][NextScan]_vars

---------------------------------------------------------------------------
(* Discrete-profile engine.  deltaL is an even number of lattice lengths,  *)
(* so that the midpoints (n + 0.5) * deltaL are on the lattice: with       *)
(* h = deltaL / 2, the term n of the sum has the phase kh*(2n+1)*pi/3 and  *)
(* the attenuation factor 2^(Gamma*h*(2n+1)).  The sum is then             *)
(* 2^(Gamma*h) * (R - i*sqrt(3)*I) / 4 with integers R and I.              *)

MaxProfile == 2

MaxHalfStep == 1

Profiles == UNION {[1..n -> Fields] : n \in 0..MaxProfile}

DeltaLs == {2 * h : h \in 0..MaxHalfStep}

\* (2/sqrt(3)) * sin(k*pi/3)
Sin2(k) == <<0, 1, 1, 0, -1, -1>>[(k % 6) + 1]

RECURSIVE SumSeq(_, _)
SumSeq(seq, n) == IF n = 0 THEN 0 ELSE seq[n] + SumSeq(seq, n - 1)

\* for (unsigned int n = 0; n < Bmag.size() - 1; n++)
\* Bmag.size() - 1 is unsigned: it wraps to the largest size_t for an empty
\* vector, and the loop then reads Bmag[0] and Bmag[1], which do not exist
LoopReadsOutOfRange(size) == size = 0

\* 2 * Bmiddle * deltaL * 2^(2 * Gamma * h * n), the weight of term n
\* relative to the first
Weight(Bmag, deltaL, Gamma, n) ==
    (Bmag[n + 1] + Bmag[n + 2]) * deltaL * Pow(4, Gamma * (deltaL \div 2) * n)

RECURSIVE SumRe(_, _, _, _, _)
SumRe(Bmag, deltaL, Gamma, kh, terms) ==
    IF terms = 0 THEN 0
    ELSE Weight(Bmag, deltaL, Gamma, terms - 1) * Cos2(kh * (2 * terms - 1))
         + SumRe(Bmag, deltaL, Gamma, kh, terms - 1)

RECURSIVE SumIm(_, _, _, _, _)
SumIm(Bmag, deltaL, Gamma, kh, terms) ==
    IF terms = 0 THEN 0
    ELSE Weight(Bmag, deltaL, Gamma, terms - 1) * Sin2(kh * (2 * terms - 1))
         + SumIm(Bmag, deltaL, Gamma, kh, terms - 1)

\* BLHalfSquared(fieldAverage, Lcoh), fieldAverage the mean of the samples
BLHalfSquaredOfAverage(Bmag, Lcoh) ==
    LET sol == SumSeq(Bmag, Len(Bmag)) * Lcoh
    IN Canon(sol * sol, 0, 1, 0, 0, Len(Bmag) * Len(Bmag))

\* n < Bmag.size() - 1, for a vector that is not empty
ProfileTerms(size) == size - 1

\* Double_t Lcoh = (Bmag.size() - 1) * deltaL, with Bmag.size() - 1 taken in
\* size_t: the value is v + wraps * 2^64, and wraps is not 0 only for an
\* empty vector
ProfileLcoh(size, deltaL) ==
    [v |-> (size - 1) * deltaL, wraps |-> IF size = 0 THEN deltaL ELSE 0]

\* exp(-GammaL) * sum.Rho2() * BLHalfSquared(1, 1)
ProfileValue(Bmag, deltaL, q, Gamma, terms) ==
    IF terms = 0 THEN Zero
    ELSE IF q.kind # "fin" THEN NaN
    ELSE LET h == deltaL \div 2
             kh == (q.v[1] * h * EaLCM) \div q.v[2]
             R == SumRe(Bmag, deltaL, Gamma, kh, terms)
             I == SumIm(Bmag, deltaL, Gamma, kh, terms)
         IN Canon(R * R + 3 * I * I, 0,
                  16 * Pow(4, Gamma * h * (2 * terms - 1)), 0, 0, 1)

\* what a build may do with the reads out of range: fault, or go on with
\* whatever the memory holds
OutOfRangeOutcomes ==
    {[returned |-> FALSE, sol |-> Unset],
     [returned |-> TRUE, sol |-> NaN],
     [returned |-> TRUE, sol |-> Zero]}

GammaTransmissionProbabilityProfile(gas, Bmag, deltaL, Ea, ma, mg, absLength, ub) ==
    LET size == Len(Bmag)
        photonMass == ResolvePhotonMass(gas, Ea, mg)
    IN IF IsDegenerate(ma, photonMass)
       THEN [returned |-> TRUE, degenerate |-> TRUE, outOfRange |-> FALSE, terms |-> 0,
             Lcoh |-> ProfileLcoh(size, deltaL),
             sol |-> IF size = 0 THEN Zero
                     ELSE BLHalfSquaredOfAverage(Bmag, ProfileTerms(size) * deltaL)]
       ELSE IF LoopReadsOutOfRange(size)
       THEN [returned |-> ub.returned, degenerate |-> FALSE, outOfRange |-> TRUE,
             Lcoh |-> ProfileLcoh(size, deltaL),
             terms |-> 1, sol |-> ub.sol]
       ELSE LET q == ReducedMomentum(ma, photonMass, Ea)
                Gamma == ResolveGamma(gas, Ea, absLength)
            IN [returned |-> TRUE, degenerate |-> FALSE, outOfRange |-> FALSE,
                Lcoh |-> ProfileLcoh(size, deltaL),
                terms |-> ProfileTerms(size),
                sol |-> ProfileValue(Bmag, deltaL, q, Gamma, ProfileTerms(size))]

ProfileProbability(ub) ==
    /\ call.op = "none"
    /\ call' = [call EXCEPT !.op = "GammaTransmissionProbabilityProfile"]
    /\ out' = GammaTransmissionProbabilityProfile(fBufferGas, call.Bmag, call.deltaL,
                  call.Ea, call.ma, call.mg, call.absLength, ub)
    /\ UNCHANGED <<fBmag, fLcoh, fEa, fBufferGas, fMagneticField, lastFull, live, SolarFlux>>

\* the arguments of the call are drawn here
InitProfile ==
    /\ fBmag = MaxB
    /\ fLcoh = MaxL
    /\ fEa = MaxEa
    /\ fBufferGas \in Gases \cup {NULL}
    /\ fMagneticField = nullptr
    /\ call \in [op : {"none"}, Bmag : Profiles, deltaL : DeltaLs, Ea : Energies,
                 ma : Masses, mg : Masses, absLength : Gammas]
    /\ out = NoOut
    /\ lastFull = None
    /\ live = 0
    /\ NoSolarFlux

NextProfile == \E ub \in OutOfRangeOutcomes : ProfileProbability(ub)

SpecProfile == InitProfile /\ [][NextProfile]_vars

---------------------------------------------------------------------------
(* Two threads on one instance.  Nothing guards the members, so the steps  *)
(* of two calls interleave at every access: the three assignments of a     *)
(* full-argument call, the two halves of the reduced-argument body (lines  *)
(* 295-310, which resolve the photon mass, and lines 312-342, which        *)
(* resolve Gamma and compute), and the statements of                       *)
(* GetMassDensityScanning.  Each thread first makes a full-argument call;  *)
(* when both have returned the caller binds a gas, thread 1 scans and      *)
(* thread 2 makes a reduced-argument call.  call[t] holds the position and *)
(* the locals of thread t, out[t] what its calls returned.                 *)

Threads == {1, 2}

Other(t) == 3 - t

\* the arguments of the two full-argument calls
FullArgs(t) ==
    IF t = 1 THEN [fBmag |-> 1, fLcoh |-> 1, fEa |-> 1, ma |-> 1]
    ELSE [fBmag |-> MaxB, fLcoh |-> MaxL, fEa |-> MaxEa, ma |-> 1]

\* The reduced-argument body when the members change between its two
\* halves: selfA and gasA are what lines 295-310 read, selfB and gasB what
\* lines 312-342 read.
BodyResolveVacuum(selfA, gasA, ma, mg) ==
    LET photonMass == mg
    IN [photonMass |-> photonMass,
        degenerate |-> IsDegenerate(ma, photonMass),
        sol |-> Exact(BLHalfSquared(selfA.fBmag, selfA.fLcoh))]

BodyResolve(selfA, gasA, ma, mg) ==
    LET photonMass == ResolvePhotonMass(gasA, selfA.fEa, mg)
    IN [photonMass |-> photonMass,
        degenerate |-> IsDegenerate(ma, photonMass),
        sol |-> Exact(BLHalfSquared(selfA.fBmag, selfA.fLcoh))]

BodyCompute(selfA, photonMass, selfB, gasB, ma, absLength) ==
    LET q == ReducedMomentum(ma, photonMass, selfB.fEa)
        phi == Phase(q, selfA.fLcoh)
        Gamma == ResolveGamma(gasB, selfB.fEa, absLength)
        GammaL == Gamma * selfA.fLcoh
        MFactor == MFactorOf(phi, GammaL)
    IN TransmissionValue(MFactor, phi, GammaL, BLHalfSquared(selfB.fBmag, selfB.fLcoh))

NoThread == [pc |-> "write1"]

InitThreads ==
    /\ fBmag \in Fields
    /\ fLcoh \in Lengths
    /\ fEa \in Energies
    /\ fBufferGas = NULL
    /\ fMagneticField = nullptr
    /\ call = [t \in Threads |-> NoThread]
    /\ out = [t \in Threads |-> [full |-> Unset, second |-> Unset]]
    /\ lastFull = None
    /\ live = 0
    /\ NoSolarFlux

Shared == <<fMagneticField, lastFull, live, SolarFlux>>

\* fBmag = Bmag;
WriteBmag(t) ==
    /\ call[t].pc = "write1"
    /\ fBmag' = FullArgs(t).fBmag
    /\ call' = [call EXCEPT ![t] = [pc |-> "write2", otherAtStart |-> call[Other(t)].pc]]
    /\ UNCHANGED <<fLcoh, fEa, fBufferGas, out, Shared>>

\* fLcoh = Lcoh;
WriteLcoh(t) ==
    /\ call[t].pc = "write2"
    /\ fLcoh' = FullArgs(t).fLcoh
    /\ call' = [call EXCEPT ![t].pc = "write3"]
    /\ UNCHANGED <<fBmag, fEa, fBufferGas, out, Shared>>

\* fEa = Ea;
WriteEa(t) ==
    /\ call[t].pc = "write3"
    /\ fEa' = FullArgs(t).fEa
    /\ call' = [call EXCEPT ![t] = [pc |-> "resolve", op |-> "full", ma |-> FullArgs(t).ma,
                                     otherAtStart |-> call[t].otherAtStart]]
    /\ UNCHANGED <<fBmag, fLcoh, fBufferGas, out, Shared>>

\* where thread t stands once its call has returned, with what the call
\* read: the members and the binding in each half, and where the other
\* thread stood at each
Returned(t, selfA, gasA, selfB, gasB, atA, atB) ==
    [pc |-> IF call[t].op = "full" THEN "fullDone" ELSE "done",
     op |-> call[t].op, ma |-> call[t].ma, otherAtStart |-> call[t].otherAtStart,
     selfA |-> selfA, gasA |-> gasA, selfB |-> selfB, gasB |-> gasB,
     atA |-> atA, atB |-> atB]

Record(t, sol) ==
    IF call[t].op = "full" THEN [out EXCEPT ![t].full = sol]
    ELSE [out EXCEPT ![t].second = sol]

\* lines 295-310 of the reduced-argument body
Resolve(t) ==
    /\ call[t].pc = "resolve"
    /\ LET r == BodyResolve(FieldState, fBufferGas, call[t].ma, 0)
       IN IF r.degenerate
          THEN /\ call' = [call EXCEPT ![t] =
                             Returned(t, FieldState, fBufferGas, FieldState, fBufferGas,
                                      call[Other(t)].pc, call[Other(t)].pc)]
               /\ out' = Record(t, r.sol)
          ELSE /\ call' = [call EXCEPT ![t] =
                             [pc |-> "compute", op |-> call[t].op, ma |-> call[t].ma,
                              otherAtStart |-> call[t].otherAtStart,
                              photonMass |-> r.photonMass, selfA |-> FieldState,
                              gasA |-> fBufferGas, atA |-> call[Other(t)].pc]]
               /\ out' = out
    /\ UNCHANGED <<fBmag, fLcoh, fEa, fBufferGas, Shared>>

\* lines 312-342 of the reduced-argument body
Compute(t) ==
    /\ call[t].pc = "compute"
    /\ LET c == call[t]
       IN /\ out' = Record(t, BodyCompute(c.selfA, c.photonMass, FieldState,
                                          fBufferGas, c.ma, 0))
          /\ call' = [call EXCEPT ![t] =
                        Returned(t, c.selfA, c.gasA, FieldState, fBufferGas,
                                 c.atA, call[Other(t)].pc)]
    /\ UNCHANGED <<fBmag, fLcoh, fEa, fBufferGas, Shared>>

\* both full-argument calls have returned: the caller binds gas, thread 1
\* calls GetMassDensityScanning(gasName, maMax, 0) and thread 2
\* GammaTransmissionProbability(ma)
SecondCalls(gas, gasName, maMax, ma) ==
    /\ \A t \in Threads : call[t].pc = "fullDone"
    /\ fBufferGas' = gas
    /\ call' = [call EXCEPT
                  ![1] = [pc |-> "detach", caller |-> gas, gasName |-> gasName,
                          maMax |-> maMax],
                  ![2] = [pc |-> "resolve", op |-> "reduced", ma |-> ma,
                          otherAtStart |-> "none"]]
    /\ UNCHANGED <<fBmag, fLcoh, fEa, out, Shared>>

\* lines 820-824
ScanDetach ==
    /\ call[1].pc = "detach"
    /\ fBufferGas' = IF fBufferGas # NULL THEN Detach(fBufferGas) ELSE fBufferGas
    /\ call' = [call EXCEPT ![1] = [call[1] EXCEPT !.pc = "first"] @@
                                   [previousGas |-> fBufferGas]]
    /\ UNCHANGED <<fBmag, fLcoh, fEa, out, Shared>>

\* line 827, with the members as they are now
ScanFirst ==
    /\ call[1].pc = "first"
    /\ LET firstMass == GammaTransmissionFWHM(FieldState, fBufferGas, DefaultStep).ret \div 2
       IN call' = [call EXCEPT ![1] = [call[1] EXCEPT !.pc = "attach"] @@
                                      [ma |-> firstMass]]
    /\ UNCHANGED <<fBmag, fLcoh, fEa, fBufferGas, out, Shared>>

\* lines 829-837
ScanAttach ==
    /\ call[1].pc = "attach"
    /\ LET density == GetDensityForMass(call[1].ma, fEa)
       IN /\ fBufferGas' = Gas(call[1].gasName, 0, TRUE)
          /\ call' = [call EXCEPT ![1] = [call[1] EXCEPT !.pc = "loop"] @@
                        [density |-> density,
                         massDensityPairs |-> << <<call[1].ma, density>> >>]]
    /\ UNCHANGED <<fBmag, fLcoh, fEa, out, Shared>>

\* one iteration of lines 839-847; the gas bound is the local gas, whose
\* density the iteration sets
ScanIterate ==
    /\ call[1].pc = "loop"
    /\ LoopRuns(call[1].ma, call[1].maMax)
    /\ LET c == call[1]
           gas == Gas(c.gasName, c.density, TRUE)
           width == GammaTransmissionFWHM(FieldState, gas, DefaultStep).ret
           next == c.ma + Advance(width, Factor(c.ma, 0))
           nextDensity == GetDensityForMass(next, DefaultEnergy)
       IN /\ fBufferGas' = gas
          /\ call' = [call EXCEPT ![1] =
                        [c EXCEPT !.ma = next, !.density = nextDensity,
                                  !.massDensityPairs =
                                      Append(c.massDensityPairs,
                                             <<EmittedMass(c.ma, next), nextDensity>>)]]
    /\ UNCHANGED <<fBmag, fLcoh, fEa, out, Shared>>

\* line 850 and the return
ScanRestore ==
    /\ call[1].pc = "loop"
    /\ ~LoopRuns(call[1].ma, call[1].maMax)
    /\ fBufferGas' = Restore(call[1].previousGas, fBufferGas)
    /\ out' = [out EXCEPT ![1].second = call[1].massDensityPairs]
    /\ call' = [call EXCEPT ![1] = [pc |-> "done", caller |-> call[1].caller,
                                    gasName |-> call[1].gasName]]
    /\ UNCHANGED <<fBmag, fLcoh, fEa, Shared>>

NextThreads ==
    \/ \E t \in Threads : WriteBmag(t)
    \/ \E t \in Threads : WriteLcoh(t)
    \/ \E t \in Threads : WriteEa(t)
    \/ \E t \in Threads : Resolve(t)
    \/ \E t \in Threads : Compute(t)
    \/ \E gas \in Gases \cup {NULL}, gasName \in GasNames, maMax \in MaMaxes,
          ma \in Masses : SecondCalls(gas, gasName, maMax, ma)
    \/ ScanDetach
    \/ ScanFirst
    \/ ScanAttach
    \/ ScanIterate
    \/ ScanRestore

SpecThreads == InitThreads /\ [][NextThreads]_vars

---------------------------------------------------------------------------
(* TRestAxionSolarFlux: the continuum flux table and its ring integrals.   *)
(* The table file has RowCount rows (the solar rings, 100 in the code) of  *)
(* ColumnCount columns (the energy bins, 200 in the code); here a table    *)
(* is the flux of each of its rows and the number of columns its rows      *)
(* have.  No monochromatic table is configured (fFluxSptFile is empty).    *)

\* fluxTable.size() != 100, in rows of the table lattice
RowCount == 2

\* fluxTable[0].size() != 200, in columns of the table lattice
ColumnCount == 2

MaxRows == 3

MaxColumns == 3

MaxLoads == 2

FluxValues == 0..1

Tables == [rows : UNION {[1..n -> FluxValues] : n \in 0..MaxRows}, columns : 0..MaxColumns]

EmptyTable == [rows |-> << >>, columns |-> 0]

\* fFluxDataFile with what the file holds; binned is fBinSize > 0 and
\* fPeakSigma > 0, which a .flux file needs
Files ==
    {[extension |-> ""]}
      \cup [extension : {"dat", "txt"}, table : Tables]
      \cup [extension : {"flux"}, table : Tables, binned : BOOLEAN]

Min(a, b) == IF a < b THEN a ELSE b

\* a TH1F of ColumnCount bins filled with columns entries of the flux v:
\* the entries beyond the last bin are not in its Integral()
Histogram(v, columns) == [integral |-> v * Min(columns, ColumnCount)]

\* the quotient n / d of two doubles holding naturals
Ratio(n, d) ==
    IF d = 0 THEN (IF n = 0 THEN NaN ELSE Inf)
    ELSE [kind |-> "ratio", n |-> n \div GCD(n, d), d |-> d \div GCD(n, d)]

\* x /= total
DivideBy(x, total) ==
    IF x.kind = "nan" THEN NaN
    ELSE IF x.kind = "inf" THEN Inf
    ELSE IF x.d * total = 0 THEN (IF x.n = 0 THEN NaN ELSE Inf)
    ELSE Ratio(x.n, x.d * total)

\* the table ReadASCIITable gives for a .dat file; any other extension is
\* not recognized and gives the cleared table
ReadTable(file) == IF file.extension = "dat" THEN file.table ELSE EmptyTable

\* if (fluxTable.size() != 100 && fluxTable[0].size() != 200)
Rejects(size, firstRowSize) == size # RowCount /\ firstRowSize # ColumnCount

\* fluxTable[0].size() is evaluated when fluxTable.size() != 100; for an
\* empty table there is no row 0
ReadsMissingRow(size) == size # RowCount /\ size = 0

\* what a build may do with fluxTable[0].size() of an empty table: fault,
\* or go on with whatever the memory holds as the size
MissingRowOutcomes ==
    {[returned |-> FALSE, firstRowSize |-> 0],
     [returned |-> TRUE, firstRowSize |-> ColumnCount],
     [returned |-> TRUE, firstRowSize |-> 0]}

\* the loop of lines 309-313: one histogram per row, pushed after what
\* fFluxTable holds
PushRows(table, fluxTable) ==
    table \o [n \in 1..Len(fluxTable.rows) |->
                 Histogram(fluxTable.rows[n], fluxTable.columns)]

LoadContinuumFluxTable(file, table, ub) ==
    IF file.extension = ""
    THEN [returned |-> TRUE, reported |-> FALSE, outOfRange |-> FALSE,
          fFluxTable |-> table]
    ELSE LET fluxTable == ReadTable(file)
             size == Len(fluxTable.rows)
             outOfRange == ReadsMissingRow(size)
             firstRowSize == IF outOfRange THEN ub.firstRowSize ELSE fluxTable.columns
             rejected == Rejects(size, firstRowSize)
         IN IF outOfRange /\ ~ub.returned
            THEN [returned |-> FALSE, reported |-> file.extension # "dat",
                  outOfRange |-> TRUE, fFluxTable |-> table]
            ELSE [returned |-> TRUE,
                  reported |-> rejected \/ file.extension # "dat",
                  outOfRange |-> outOfRange,
                  fFluxTable |-> IF rejected THEN table ELSE PushRows(table, fluxTable)]

\* ReadFluxFile: nothing without the bin size and the peak sigma; otherwise
\* fFluxTable.clear() and one projection per ring of the 100-ring histogram
ReadFluxFile(file, table) ==
    IF ~file.binned THEN table
    ELSE [n \in 1..RowCount |->
             Histogram(IF n <= Len(file.table.rows) THEN file.table.rows[n] ELSE 0,
                       file.table.columns)]

\* fTotalContinuumFlux after the first n histograms, in units of 0.1
RECURSIVE Cumulative(_, _)
Cumulative(table, n) ==
    IF n = 0 THEN 0 ELSE table[n].integral + Cumulative(table, n - 1)

\* the continuum part of IntegrateSolarFluxes, lines 657-663:
\* fFluxTableIntegrals is pushed to as it is, then every entry is divided
IntegrateSolarFluxes(table, integrals) ==
    LET total == Cumulative(table, Len(table))
        old == Len(integrals)
    IN [i \in 1..(old + Len(table)) |->
           IF i <= old THEN DivideBy(integrals[i], total)
           ELSE Ratio(Cumulative(table, i - old), total)]

\* LoadTables on the configured instance
LoadTables(file, table, integrals, ub) ==
    IF file.extension = ""
    THEN [returned |-> TRUE, reported |-> FALSE, outOfRange |-> FALSE,
          fFluxTable |-> table, fFluxTableIntegrals |-> integrals]
    ELSE IF file.extension = "flux"
    THEN LET read == ReadFluxFile(file, table)
         IN [returned |-> TRUE, reported |-> ~file.binned, outOfRange |-> FALSE,
             fFluxTable |-> read,
             fFluxTableIntegrals |-> IntegrateSolarFluxes(read, integrals)]
    ELSE LET r == LoadContinuumFluxTable(file, table, ub)
         IN [returned |-> r.returned, reported |-> r.reported,
             outOfRange |-> r.outOfRange, fFluxTable |-> r.fFluxTable,
             fFluxTableIntegrals |->
                 IF r.returned THEN IntegrateSolarFluxes(r.fFluxTable, integrals)
                 ELSE integrals]

FieldUntouched == <<fBmag, fLcoh, fEa, fBufferGas, fMagneticField, lastFull, live>>

Returns == IF out = NoOut THEN TRUE ELSE out.returned

LoadContinuumFluxTableCall(ub) ==
    /\ Returns
    /\ call.loads < MaxLoads
    /\ fFluxDataFile.extension # "flux"
    /\ LET r == LoadContinuumFluxTable(fFluxDataFile, fFluxTable, ub)
       IN /\ out' = [returned |-> r.returned, reported |-> r.reported,
                     outOfRange |-> r.outOfRange]
          /\ fFluxTable' = r.fFluxTable
    /\ call' = [op |-> "LoadContinuumFluxTable", loads |-> call.loads + 1,
                direct |-> TRUE, before |-> fFluxTable]
    /\ UNCHANGED <<FieldUntouched, fFluxDataFile, fFluxTableIntegrals>>

LoadTablesCall(ub) ==
    /\ Returns
    /\ call.loads < MaxLoads
    /\ LET r == LoadTables(fFluxDataFile, fFluxTable, fFluxTableIntegrals, ub)
       IN /\ out' = [returned |-> r.returned, reported |-> r.reported,
                     outOfRange |-> r.outOfRange]
          /\ fFluxTable' = r.fFluxTable
          /\ fFluxTableIntegrals' = r.fFluxTableIntegrals
    /\ call' = [op |-> "LoadTables", loads |-> call.loads + 1,
                direct |-> call.direct, before |-> fFluxTable]
    /\ UNCHANGED <<FieldUntouched, fFluxDataFile>>

InitSolarFlux ==
    /\ fBmag = 0
    /\ fLcoh = 0
    /\ fEa = 0
    /\ fBufferGas = NULL
    /\ fMagneticField = nullptr
    /\ call = [op |-> "none", loads |-> 0, direct |-> FALSE, before |-> << >>]
    /\ out = NoOut
    /\ lastFull = None
    /\ live = 0
    /\ fFluxDataFile \in Files
    /\ fFluxTable = << >>
    /\ fFluxTableIntegrals = << >>

NextSolarFlux ==
    \/ \E ub \in MissingRowOutcomes : LoadContinuumFluxTableCall(ub)
    \/ \E ub \in MissingRowOutcomes : LoadTablesCall(ub)

SpecSolarFlux == InitSolarFlux /\ [][NextSolarFlux]_vars

---------------------------------------------------------------------------
(* Properties *)

TransmissionOps == {"GammaTransmissionProbability", "GammaTransmissionProbabilityFull"}

ClosedFormOps == TransmissionOps \cup
                 {"AxionAbsorptionProbability", "AxionAbsorptionProbabilityFull"}

FieldMapOp == "GammaTransmissionFieldMapProbability"

\* the data members after a full-argument call with (Bmag, Lcoh, Ea)
AsFieldState(t) == [fBmag |-> t[1], fLcoh |-> t[2], fEa |-> t[3]]

\* the photon mass and the attenuation the resolution rule of the claim gives
ExpectedPhotonMass ==
    IF call.mg # 0 THEN call.mg
    ELSE IF fBufferGas # NULL THEN GetPhotonMass(fBufferGas, fEa)
    ELSE 0

ExpectedGamma ==
    IF call.absLength # 0 THEN call.absLength
    ELSE IF fBufferGas # NULL THEN GetPhotonAbsorptionLength(fBufferGas, fEa)
    ELSE 0

C2_DegenerateIsBLHalfSquared ==
    ( /\ call.op \in TransmissionOps
      /\ call.ma = 0
      /\ call.mg = 0
      /\ (fBufferGas = NULL \/ GetPhotonMass(fBufferGas, fEa) = 0) )
    => /\ out.sol = Exact(BLHalfSquared(fBmag, fLcoh))
       /\ out.Gamma = Unset
       /\ ~out.askedGamma

C2_Witness ==
    /\ call.op \in TransmissionOps
    /\ call.ma = 0
    /\ call.mg = 0
    /\ fBufferGas = Empty
    /\ call.absLength # 0
    /\ out.sol = Exact(BLHalfSquared(fBmag, fLcoh))
    /\ out.sol # Zero

\* C3: the photon mass and Gamma are resolved alike: a nonzero argument is used
\* as given and the gas is not asked; a zero argument takes the value of the
\* bound gas at fEa, and 0 when no gas is bound.
C3_ResolutionPriority ==
    call.op \in ClosedFormOps =>
        /\ out.photonMass = ExpectedPhotonMass
        /\ call.mg # 0 => ~out.askedMass
        /\ ~out.degenerate => out.Gamma = Fin(ExpectedGamma)
        /\ call.absLength # 0 => ~out.askedGamma

C3_Witness ==
    /\ call.op \in ClosedFormOps
    /\ fBufferGas = He
    /\ call.mg # 0
    /\ call.mg # GetPhotonMass(fBufferGas, fEa)
    /\ out.photonMass = call.mg
    /\ call.absLength = 0
    /\ out.askedGamma
    /\ out.Gamma = Fin(GetPhotonAbsorptionLength(fBufferGas, fEa))

\* C4: for nonzero ma and mg the transmission probability is the one of the
\* call with ma and mg exchanged.
C4_MassSwapSymmetry ==
    (call.op \in TransmissionOps /\ call.ma # 0 /\ call.mg # 0) =>
        out.sol = GammaTransmissionProbability(FieldState, fBufferGas,
                      call.mg, call.ma, call.absLength).sol

C4_Witness ==
    /\ call.op \in TransmissionOps
    /\ call.ma # 0
    /\ call.mg # 0
    /\ call.ma # call.mg
    /\ out.sol.kind = "real"

\* C5: the value of a full-argument call is the value the same call returns on
\* an instance with any other prior fBmag, fLcoh, fEa and the same gas.
C5_FullCallIsPure ==
    call.op = "GammaTransmissionProbabilityFull" =>
        \A prior \in FieldStates :
            out.sol = GammaTransmissionProbability(
                          SetFieldState(prior, lastFull[1], lastFull[2], lastFull[3]),
                          fBufferGas, call.ma, call.mg, call.absLength).sol

C5_Witness ==
    /\ call.op = "GammaTransmissionProbabilityFull"
    /\ fBufferGas = He
    /\ call.mg = 0
    /\ out.sol.kind = "real"

\* C6: with a positive energy and a positive length every intermediate
\* quantity of the transmission probability is finite (the denominator
\* phi^2 + (GammaL/2)^2 is never zero).
C6_AllFinite ==
    (call.op \in TransmissionOps /\ fEa > 0 /\ fLcoh > 0 /\ ~out.degenerate) =>
        /\ IsFinite(out.q)
        /\ IsFinite(out.phi)
        /\ IsFinite(out.MFactor)
        /\ IsFinite(out.sol)

\* C7: without a field map the field-map probability is (0, 0), an error is
\* reported, no quadrature runs and nothing is allocated.
C7_NoFieldMap ==
    (call.op = FieldMapOp /\ fMagneticField = nullptr) =>
        /\ out.ret = <<Zero, Zero>>
        /\ out.reported
        /\ out.quad = << >>
        /\ out.allocated = 0

C7_Witness ==
    /\ call.op = FieldMapOp
    /\ fMagneticField = nullptr
    /\ fBufferGas = He
    /\ out.ret = <<Zero, Zero>>
    /\ out.reported

\* C8: with a field map of track length <= 0 the field-map probability is
\* (0, 0) and an error is reported.
C8_NoTrackReported ==
    (call.op = FieldMapOp /\ fMagneticField # nullptr /\ fMagneticField.trackLength <= 0) =>
        /\ out.ret = <<Zero, Zero>>
        /\ out.reported

\* C9: when a quadrature call returns a nonzero status, it is the last
\* quadrature call, the engine returns (0, status) and computes no probability.
C9_QuadratureFailure ==
    call.op = FieldMapOp =>
        \A i \in DOMAIN out.quad :
            out.quad[i] # 0 =>
                /\ i = Len(out.quad)
                /\ out.ret = <<Zero, Fin(out.quad[i])>>
                /\ ~out.computed

C9_Witness ==
    /\ call.op = FieldMapOp
    /\ Len(out.quad) = 2
    /\ out.quad[1] = 0
    /\ out.quad[2] # 0
    /\ out.ret = <<Zero, Fin(out.quad[2])>>

\* C10: no workspace and no table allocated by the engine is live between
\* calls.
C10_NoLiveAllocation == live = 0

---------------------------------------------------------------------------
(* The resonance width.  The formulas below compute the resonance, Pmax    *)
(* and the half-maximum test from the engine's state, not from the walk.   *)

FWHMOp == "GammaTransmissionFWHM"

\* the photon mass of the bound gas at fEa, 0 in vacuum
ResonanceMassNow ==
    IF fBufferGas # NULL THEN GetPhotonMass(fBufferGas, fEa) ELSE 0

ProbabilityNow(ma) ==
    GammaTransmissionProbability(FieldState, fBufferGas, ma, 0, 0).sol

\* the probability at the k-th mass of the walk is above half of the
\* probability at the resonance
AboveHalfMax(k) ==
    Less(Half(ProbabilityNow(ResonanceMassNow)),
         ProbabilityNow(ResonanceMassNow + k * call.step))

\* C11: when the walk passes CeilingMass (10 eV) with the probability above
\* Pmax/2 at every mass before, GammaTransmissionFWHM returns, reports an
\* error and the value returned is the sentinel itself, not doubled.
C11_CeilingReturnsSentinel ==
    ( /\ call.op = FWHMOp
      /\ \E k \in 1..(CeilingMass + 1) :
            /\ ResonanceMassNow + k * call.step > CeilingMass
            /\ \A j \in 0..(k - 1) : AboveHalfMax(j) )
    => (out.returned /\ out.reported /\ out.ret = CeilingMass)

C11_Witness ==
    /\ call.op = FWHMOp
    /\ fBufferGas = NULL
    /\ call.step = 3
    /\ out.exit = "ceiling"
    /\ out.scanMass = 3
    /\ out.reported
    /\ out.ret = CeilingMass

C13_FallbackIsStep ==
    (call.op = FWHMOp /\ ~AboveHalfMax(0))
    => (out.returned /\ out.reported /\ out.ret = call.step)

\* C13 amended: when no step is taken, an error is reported and the value
\* returned is 2 * step: step replaces scanMass - resonanceMass and is
\* doubled like any width.
C13_FallbackIsTwiceStep ==
    (call.op = FWHMOp /\ ~AboveHalfMax(0))
    => (out.returned /\ out.reported /\ out.ret = 2 * call.step)

C13_Witness ==
    /\ call.op = FWHMOp
    /\ call.step = 2
    /\ fLcoh = 0
    /\ out.Pmax = Zero
    /\ out.scanMass = out.resonanceMass
    /\ out.reported
    /\ out.ret = 4

---------------------------------------------------------------------------
(* The scan *)

ScanOp == "GetMassDensityScanning"

MassOf(i) == out.massDensityPairs[i][1]

\* C14: the masses of the ScanPoints of a returned scan are strictly
\* increasing in emission order, for every gasName, maMax and rampDown.
C14_MassesStrictlyIncrease ==
    (call.op = ScanOp /\ out.returned) =>
       \A i \in 1..(Len(out.massDensityPairs) - 1) : MassOf(i) < MassOf(i + 1)

C14_Witness ==
    /\ call.op = ScanOp
    /\ out.returned
    /\ Len(out.massDensityPairs) = 3
    /\ MassOf(1) < MassOf(2)
    /\ MassOf(2) < MassOf(3)

C16_GasBindingRestored ==
    (call.op = ScanOp /\ out.returned) =>
       /\ fBufferGas = call.previousGas
       /\ (fBufferGas # NULL => ~fBufferGas.local)

C16_Witness ==
    /\ call.op = ScanOp
    /\ out.returned
    /\ call.previousGas = He
    /\ Len(out.massDensityPairs) >= 2
    /\ fBufferGas = He

\* C17: the first ScanPoint is (w/2, GetDensityForMass(w/2, fEa)) with w the
\* width GammaTransmissionFWHM gives with no gas bound and the current
\* FieldState, whatever gas was bound before the call.
C17_FirstMassFromVacuum ==
    (call.op = ScanOp) =>
       LET w == GammaTransmissionFWHM(FieldState, NULL, DefaultStep).ret
       IN out.massDensityPairs[1] = <<w \div 2, GetDensityForMass(w \div 2, fEa)>>

C17_Witness ==
    /\ call.op = ScanOp
    /\ call.previousGas = He
    /\ GammaTransmissionFWHM(FieldState, He, DefaultStep).ret = 2
    /\ out.firstWidth.ret = 4
    /\ out.massDensityPairs[1] = <<2, 4>>

---------------------------------------------------------------------------
(* The discrete-profile engine *)

ProfileOp == "GammaTransmissionProbabilityProfile"

\* C18: with a profile of fewer than 2 samples the discrete-profile engine
\* accumulates no term, reads no element out of range and returns 0, for
\* every stepSize, Ea, ma, mg and absLength.
C18_ShortProfileIsZero ==
    (call.op = ProfileOp /\ Len(call.Bmag) < 2) =>
       /\ out.returned
       /\ out.terms = 0
       /\ ~out.outOfRange
       /\ out.sol = Zero

Uniform(Bmag) == \A i \in 1..Len(Bmag) : Bmag[i] = Bmag[1]

\* C19, on the profiles whose sum does not depend on the step: for a uniform
\* profile B0 of length L, with no momentum transfer (ma equal to the
\* resolved photon mass) and no attenuation, every term of the midpoint sum
\* is B0 * deltaL whatever deltaL is, so the limit for deltaL -> 0 is the
\* value at any deltaL; that value is the closed-form result for the same
\* (B0, L, Ea, ma, mg).
C19_UniformLimitIsClosedForm ==
    ( /\ call.op = ProfileOp
      /\ Len(call.Bmag) >= 2
      /\ Uniform(call.Bmag)
      /\ call.Ea > 0
      /\ ResolvePhotonMass(fBufferGas, call.Ea, call.mg) = call.ma
      /\ ResolveGamma(fBufferGas, call.Ea, call.absLength) = 0 )
    => out.sol = GammaTransmissionProbability(
                     [fBmag |-> call.Bmag[1],
                      fLcoh |-> (Len(call.Bmag) - 1) * call.deltaL,
                      fEa |-> call.Ea],
                     fBufferGas, call.ma, call.mg, call.absLength).sol

\* what a full-argument call of thread t returns when it runs alone
Serial(t) ==
    GammaTransmissionProbability(
        [fBmag |-> FullArgs(t).fBmag, fLcoh |-> FullArgs(t).fLcoh, fEa |-> FullArgs(t).fEa],
        NULL, FullArgs(t).ma, 0, 0).sol

\* thread t's full-argument call was not interleaved with the other's
\* assignments: the other had assigned nothing when t computed, or had
\* assigned everything before t began
Alone(t) ==
    \/ call[t].atB = "write1"
    \/ call[t].otherAtStart \in {"resolve", "compute", "fullDone"}

\* the binding a read finds when the scan stands at position at
SeenAt(at, gas) ==
    IF at \in {"detach", "done"} THEN gas = call[1].caller
    ELSE IF at \in {"first", "attach"} THEN gas = NULL
    ELSE gas # NULL /\ gas.local /\ gas.gasName = call[1].gasName

\* C20: the instance is not safe to share.  A reduced-argument call computes
\* with the binding that is in the member when it reads it: the caller's gas
\* only before the scan of the other thread detaches it or after the scan
\* restores it, and in between no gas or the scan's local gas; a
\* full-argument call computes with its own B, L, Ea when the other call's
\* assignments do not interleave with it, and otherwise with members each of
\* which is its own or the other call's argument.
C20_CallsComputeWithWhatIsInTheMembers ==
    /\ (call[2].pc = "done") =>
          /\ SeenAt(call[2].atA, call[2].gasA)
          /\ SeenAt(call[2].atB, call[2].gasB)
          /\ (call[2].gasA = call[2].gasB) =>
                out[2].second =
                    GammaTransmissionProbability(FieldState, call[2].gasA,
                                                 call[2].ma, 0, 0).sol
    /\ \A t \in Threads :
          (call[t].pc = "fullDone") =>
             /\ \A self \in {call[t].selfA, call[t].selfB} :
                   /\ self.fBmag \in {FullArgs(1).fBmag, FullArgs(2).fBmag}
                   /\ self.fLcoh \in {FullArgs(1).fLcoh, FullArgs(2).fLcoh}
                   /\ self.fEa \in {FullArgs(1).fEa, FullArgs(2).fEa}
             /\ Alone(t) => out[t].full = Serial(t)

\* both interleavings have happened: thread 2's reduced-argument call read
\* the scan's binding, not the He the caller bound, and returned another
\* value than with He; a full-argument call returned a value that neither
\* call's own B, L, Ea give
C20_Witness ==
    /\ call[2].pc = "done"
    /\ call[1].caller = He
    /\ call[2].gasA # He
    /\ call[2].gasB # He
    /\ out[2].second #
           GammaTransmissionProbability(FieldState, He, call[2].ma, 0, 0).sol
    /\ \E t \in Threads : out[t].full \notin {Serial(1), Serial(2)}

\* the length the claim gives the profile
ClaimedLcoh == (Len(call.Bmag) - 1) * call.deltaL

\* C21: the discrete-profile engine takes (len(profile) - 1) * stepSize as
\* coherence length; with ma = 0 and resolved photon mass 0 it returns
\* BLHalfSquared(mean of the samples, coherence length), which for a uniform
\* profile of at least 2 samples B0 is the closed-form degenerate result for
\* (B0, (len - 1) * stepSize).
C21_DegenerateIsMeanField ==
    (call.op = ProfileOp) =>
       /\ out.Lcoh = [v |-> ClaimedLcoh, wraps |-> 0]
       /\ (call.ma = 0 /\ ResolvePhotonMass(fBufferGas, call.Ea, call.mg) = 0) =>
             /\ out.returned
             /\ out.sol = IF Len(call.Bmag) = 0 THEN Zero
                          ELSE Canon(SumSeq(call.Bmag, Len(call.Bmag)) * ClaimedLcoh
                                       * SumSeq(call.Bmag, Len(call.Bmag)) * ClaimedLcoh,
                                     0, 1, 0, 0, Len(call.Bmag) * Len(call.Bmag))
             /\ (Len(call.Bmag) >= 2 /\ Uniform(call.Bmag)) =>
                   out.sol = GammaTransmissionProbability(
                                 [fBmag |-> call.Bmag[1], fLcoh |-> ClaimedLcoh,
                                  fEa |-> call.Ea],
                                 fBufferGas, 0, call.mg, call.absLength).sol

DensityOf(i) == out.massDensityPairs[i][2]

\* the width at the point i of the scan, with the local gas at the density
\* of that point
WidthAt(i) ==
    GammaTransmissionFWHM(FieldState, Gas(call.gasName, DensityOf(i), TRUE),
                          DefaultStep).ret

\* exp(-ma * rampDown) + 1 in double precision, on the lattice of rampDown >= 0
DoubleFactorAt(i) == IF MassOf(i) * call.rampDown = 0 THEN 2 ELSE 1

\* the point i + 1 is the point the iteration at the point i makes
IterationMakes(i) ==
    /\ MassOf(i + 1) = MassOf(i) + WidthAt(i) \div DoubleFactorAt(i)
    /\ DensityOf(i + 1) = GetDensityForMass(MassOf(i + 1), DefaultEnergy)

\* C22 as stated: the factor is above 1, so every advance is below the width
C22_AdvanceBelowWidth ==
    (call.op = ScanOp /\ out.returned /\ call.rampDown >= 0) =>
       \A i \in 1..(Len(out.massDensityPairs) - 1) :
          /\ IterationMakes(i)
          /\ 2 * (MassOf(i + 1) - MassOf(i)) >= WidthAt(i)
          /\ MassOf(i + 1) - MassOf(i) < WidthAt(i)

\* C22, amended: every iteration sets the local gas to the density of the
\* current point, advances the mass by the width at that density divided by
\* the factor taken at the mass before advancing, and emits the new mass
\* with the density for it; for rampDown >= 0 the factor is in [1, 2] (1
\* when exp(-ma * rampDown) is lost in the sum with 1), so every advance is
\* in [FWHM/2, FWHM].
C22_AdvanceWithinWidth ==
    (call.op = ScanOp /\ out.returned /\ call.rampDown >= 0) =>
       \A i \in 1..(Len(out.massDensityPairs) - 1) :
          /\ IterationMakes(i)
          /\ DoubleFactorAt(i) \in 1..2
          /\ 2 * (MassOf(i + 1) - MassOf(i)) >= WidthAt(i)
          /\ MassOf(i + 1) - MassOf(i) <= WidthAt(i)

\* a scan with a ramp whose iteration advanced by the whole width
C22_Witness ==
    /\ call.op = ScanOp
    /\ out.returned
    /\ call.rampDown > 0
    /\ Len(out.massDensityPairs) >= 2
    /\ MassOf(1) > 0
    /\ WidthAt(1) > 0
    /\ MassOf(2) - MassOf(1) = WidthAt(1)
    /\ DensityOf(2) = GetDensityForMass(MassOf(2), DefaultEnergy)

\* the table of the configured file has the right shape
RightShape ==
    /\ Len(fFluxDataFile.table.rows) = RowCount
    /\ fFluxDataFile.table.columns = ColumnCount

\* C23: LoadContinuumFluxTable reports an error and leaves the continuum
\* flux table as it was for every loaded table that has not exactly the
\* right number of rows and of columns, and reads no row of an empty table.
C23_MalformedTableRejected ==
    ( /\ call.op = "LoadContinuumFluxTable"
      /\ fFluxDataFile.extension = "dat"
      /\ ~RightShape )
    => /\ out.returned
       /\ out.reported
       /\ ~out.outOfRange
       /\ fFluxTable = call.before

\* the instance is configured with a file LoadTables can load in full, of
\* positive flux
WellFormedFile ==
    /\ fFluxDataFile.extension \in {"dat", "flux"}
    /\ IF fFluxDataFile.extension = "dat" THEN RightShape ELSE fFluxDataFile.binned
    /\ \E n \in 1..Min(RowCount, Len(fFluxDataFile.table.rows)) :
          fFluxDataFile.table.rows[n] > 0
    /\ fFluxDataFile.table.columns > 0

LeqRatio(x, y) ==
    IF x.kind = "ratio" /\ y.kind = "ratio" THEN x.n * y.d <= y.n * x.d ELSE FALSE

\* what a single LoadTables call leaves on the configured instance
Once ==
    LoadTables(fFluxDataFile, << >>, << >>, [returned |-> TRUE, firstRowSize |-> 0])

\* C30: after any number of LoadTables calls on the configured instance the
\* continuum table has one histogram per ring, the cumulative ring integrals
\* have one entry per ring, do not decrease and end at 1, as after a single
\* call.
C30_LoadTablesIdempotent ==
    (call.op = "LoadTables" /\ ~call.direct /\ WellFormedFile) =>
       /\ out.returned
       /\ Len(fFluxTable) = RowCount
       /\ Len(fFluxTableIntegrals) = RowCount
       /\ \A i \in 1..(Len(fFluxTableIntegrals) - 1) :
             LeqRatio(fFluxTableIntegrals[i], fFluxTableIntegrals[i + 1])
       /\ fFluxTableIntegrals[Len(fFluxTableIntegrals)] = Ratio(1, 1)
       /\ fFluxTable = Once.fFluxTable
       /\ fFluxTableIntegrals = Once.fFluxTableIntegrals

ClaimedIncrements ==
    LET d == CeilingMass - ResonanceMassNow
    IN (IF d >= 0 THEN (d + call.step - 1) \div call.step
        ELSE 0 - ((0 - d) \div call.step)) + 1

Max(a, b) == IF a > b THEN a ELSE b

Iterations == Len(out.massDensityPairs) - 1

---------------------------------------------------------------------------
\* C27: a pair of the field-map engine with probability 0 and a nonzero
\* second component comes from a failed quadrature call only: after a
\* successful integration, on resonance or off it, a probability of 0 has an
\* error estimate of 0.
QuadratureFailed == \E i \in DOMAIN out.quad : out.quad[i] # 0

---------------------------------------------------------------------------
\* C28: with no attenuation (no gas bound and absLength = 0, so GammaL = 0)
\* the absorption probability is 0 for every axion mass, ma = 0 with a photon
\* mass of 0 included.
AbsorptionOps == {"AxionAbsorptionProbability", "AxionAbsorptionProbabilityFull"}

C28_NoAttenuationNoAbsorption ==
    (call.op \in AbsorptionOps /\ fBufferGas = NULL /\ call.absLength = 0) =>
        out.sol = Zero

---------------------------------------------------------------------------
(* Every operation of TRestAxionField on one instance, one call after the  *)
(* other: what each call leaves in fBmag, fLcoh, fEa and fBufferGas.       *)

\* the arguments the caller passes to the closed-form calls
FrameArguments == {<<ma, 0, 0>> : ma \in 0..1}

\* the arguments the caller passes to the full-argument overloads
FrameStates == {<<1, 1, 1>>, <<MaxB, MaxL, MaxEa>>}

\* the profile calls of the caller
FrameProfiles ==
    [op : {"none"}, Bmag : Profiles, deltaL : {2}, Ea : {1},
     ma : 0..1, mg : {0}, absLength : {0}]

\* what the quadrature calls give: a failure, or a result with no error
FrameOutcomes == {o \in QuadOutcomes : o.abserr = 0 /\ o.status # 18}

\* no call is in progress: the last one returned
Ready == ~("returned" \in DOMAIN out /\ ~out.returned)

\* the last call took ma, mg and absLength
HasArguments == DOMAIN call = DOMAIN NoCall

\* the caller chooses the arguments of its next profile call
ChooseProfile(c) ==
    /\ call' = c
    /\ out' = NoOut
    /\ UNCHANGED <<fBmag, fLcoh, fEa, fBufferGas, fMagneticField, lastFull, live, SolarFlux>>

InitFrame == InitFieldMap

NextFrame ==
    \/ \E gas \in {NULL, He} : Ready /\ AssignBufferGas(gas)
    \/ \E fm \in {nullptr, [trackLength |-> 1]} : Ready /\ AssignMagneticField(fm)
    \/ \E a \in FrameArguments : Ready /\ ChooseArguments(a[1], a[2], a[3])
    \/ \E c \in FrameProfiles : Ready /\ ChooseProfile(c)
    \/ HasArguments /\ GammaTransmissionProbabilityReduced
    \/ \E t \in FrameStates :
          HasArguments /\ GammaTransmissionProbabilityFull(t[1], t[2], t[3])
    \/ HasArguments /\ AxionAbsorptionProbabilityReduced
    \/ \E t \in FrameStates :
          HasArguments /\ AxionAbsorptionProbabilityFull(t[1], t[2], t[3])
    \/ \E ub \in OutOfRangeOutcomes :
          "Bmag" \in DOMAIN call /\ ProfileProbability(ub)
    \/ \E ma \in 0..1, o1 \in FrameOutcomes, o2 \in FrameOutcomes :
          Ready /\ FieldMapProbability(1, ma, 1, 1, 1, o1, o2)
    \/ \E step \in Steps : FWHM(step)
    \/ \E maMax \in MaMaxes : MassDensityScanning("He", maMax, 0)
    \/ "returned" \in DOMAIN out /\ TakeResult

SpecFrame == InitFrame /\ [][NextFrame]_vars

---------------------------------------------------------------------------
\* C29: the width, the reduced-argument transmission and absorption
\* probabilities, the profile probability and the field-map probability leave
\* fBmag, fLcoh, fEa and the gas binding as they were; the scan leaves fBmag,
\* fLcoh, fEa as they were; a call that changes fBmag, fLcoh or fEa is one of
\* the full-argument overloads.
ReadingOps ==
    {FWHMOp, "GammaTransmissionProbability", "AxionAbsorptionProbability",
     "GammaTransmissionProbabilityProfile", FieldMapOp}

FullOps == {"GammaTransmissionProbabilityFull", "AxionAbsorptionProbabilityFull"}

====
